---- MODULE Spec2Model ----
(***************************************************************************)
(* Model of saramaprom's exporter (src/exporter.go): the bridge from a     *)
(* go-metrics registry to a prometheus registry.  Strings are sequences of *)
(* one-character strings, so that parseMetricName and sanitizeName are     *)
(* computed as the code computes them.  Every goroutine running update()   *)
(* is a process; each step of a process is one statement (or one critical  *)
(* section) of the code that touches shared state.                         *)
(***************************************************************************)
EXTENDS Integers, Sequences, FiniteSets, TLC

(* ------------------------------ bounds --------------------------------- *)
\* number of update() invocations in a run, over all goroutines
MaxCycles == 3
\* number of update() invocations in a run with overlapping cycles
MaxOverlap == 2
\* number of changes the instrumented program makes to its metrics in a run
MaxObs == 1
\* largest sample / value a metric takes
MaxVal == 2
\* capacity of a histogram's reservoir in the model
MaxSamples == 2
\* number of pieces a raw name handed to parseMetricName is made of
MaxPieces == 3
\* length in bytes of a key handed to sanitizeName
MaxLen == 3
\* number of Collect calls of the scrapes in a run
MaxScrapes == 1

(* ------------------------------ strings -------------------------------- *)
Lower == {"a","b","c","d","e","f","g","h","i","j","k","l","m",
          "n","o","p","q","r","s","t","u","v","w","x","y","z"}
Upper == {"A","B","C","D","E","F","G","H","I","J","K","L","M",
          "N","O","P","Q","R","S","T","U","V","W","X","Y","Z"}
Digit == {"0","1","2","3","4","5","6","7","8","9"}

ForBroker == <<"-","f","o","r","-","b","r","o","k","e","r","-">>
ForTopic == <<"-","f","o","r","-","t","o","p","i","c","-">>

\* strings.Index: 0-based position of the first occurrence of sub in s, or -1
Index(s, sub) ==
    LET hits == {i \in 0..(Len(s) - Len(sub)) :
                    SubSeq(s, i + 1, i + Len(sub)) = sub}
    IN  IF hits = {} THEN -1
        ELSE CHOOSE i \in hits : \A j \in hits : i <= j

\* mutant of parseMetricName: the topic marker is looked for first
parseMetricName_topicFirst(name) ==
    LET ib == Index(name, ForBroker)
        it == Index(name, ForTopic)
    IN  IF it >= 0
        THEN [newName |-> SubSeq(name, 1, it),
              broker  |-> <<>>,
              topic   |-> SubSeq(name, it + Len(ForTopic) + 1, Len(name))]
        ELSE IF ib >= 0
        THEN [newName |-> SubSeq(name, 1, ib),
              broker  |-> SubSeq(name, ib + Len(ForBroker) + 1, Len(name)),
              topic   |-> <<>>]
        ELSE [newName |-> name, broker |-> <<>>, topic |-> <<>>]

parseMetricName(name) ==
    LET ib == Index(name, ForBroker)
        it == Index(name, ForTopic)
    IN  IF ib >= 0
        THEN [newName |-> SubSeq(name, 1, ib),
              broker  |-> SubSeq(name, ib + Len(ForBroker) + 1, Len(name)),
              topic   |-> <<>>]
        ELSE IF it >= 0
        THEN [newName |-> SubSeq(name, 1, it),
              broker  |-> <<>>,
              topic   |-> SubSeq(name, it + Len(ForTopic) + 1, Len(name))]
        ELSE [newName |-> name, broker |-> <<>>, topic |-> <<>>]

\* mutant of allowed: the colon is left out
allowed_noColon(c) == c \in Lower \/ c \in Upper \/ c = "_" \/ c \in Digit

allowed(c) == c \in Lower \/ c \in Upper \/ c = "_" \/ c = ":" \/ c \in Digit

sanitizeName(key) ==
    [i \in 1..Len(key) |-> IF allowed(key[i]) THEN key[i] ELSE "_"]

(* --------------------------- configuration ----------------------------- *)
Namespace == <<"n">>
Subsystem == <<"s">>
\* Options.Labels as handed to the exporter at construction
BaseLabels == [env |-> <<"p">>]
\* quantile boundaries, in percent
histogramBuckets == <<50, 95>>
timerBuckets == <<50>>

createKey(name) == Namespace \o <<"_">> \o Subsystem \o <<"_">> \o name

\* prometheus.BuildFQName of the sanitized namespace, subsystem and a name
BuildFQName(name) ==
    sanitizeName(Namespace) \o <<"_">> \o sanitizeName(Subsystem)
        \o <<"_">> \o name

(* ------------------------------ raw names ------------------------------ *)
NTopicX == <<"a","-","b">> \o ForTopic \o <<"x">>
NTopicY == <<"a","-","b">> \o ForTopic \o <<"y">>
NBroker == <<"a","_","b">> \o ForBroker \o <<"1">>
NOther == <<"e">> \o ForBroker \o <<"2">>
NPlain == <<"c","-","d">>
Names == {NTopicX, NTopicY, NBroker, NOther, NPlain}

(* ------------------------- go-metrics registry ------------------------- *)
\* A metric of the upstream registry.  val is the count of a Counter, the
\* value of a Gauge or GaugeFloat64 and the 1-minute rate of a Meter or
\* Timer; samples is the reservoir of a Histogram or Timer.
Metric(kind, val, samples) == [kind |-> kind, val |-> val, samples |-> samples]

RECURSIVE SeqSum(_)
SeqSum(s) == IF s = <<>> THEN 0 ELSE s[1] + SeqSum(Tail(s))

RECURSIVE Insert(_, _)
Insert(v, s) ==
    IF s = <<>> THEN <<v>>
    ELSE IF v <= s[1] THEN <<v>> \o s
    ELSE <<s[1]>> \o Insert(v, Tail(s))

RECURSIVE Sort(_)
Sort(s) == IF s = <<>> THEN <<>> ELSE Insert(s[1], Sort(Tail(s)))

\* Snapshot().Percentiles(buckets) of go-metrics, each score truncated by
\* the uint64 conversion of the caller; a boundary b stands for b/100
Percentile(values, b) ==
    LET size == Len(values)
        sorted == Sort(values)
        pos100 == b * (size + 1)
        lo == sorted[pos100 \div 100]
        up == sorted[(pos100 \div 100) + 1]
    IN  IF size = 0 THEN 0
        ELSE IF pos100 < 100 THEN sorted[1]
        ELSE IF pos100 >= 100 * size THEN sorted[size]
        ELSE lo + (((pos100 % 100) * (up - lo)) \div 100)

Percentiles(values, buckets) ==
    [i \in 1..Len(buckets) |-> Percentile(values, buckets[i])]

\* what metric.Snapshot() yields to histogramFromNameAndMetric
Snapshot(m, buckets) ==
    [count |-> Len(m.samples),
     sum   |-> SeqSum(m.samples),
     ps    |-> Percentiles(m.samples, buckets)]

EmptyFn == [x \in {} |-> 0]

\* the registries the instrumented program may have built
RegTopics ==
    (NTopicX :> Metric("Counter", 1, <<>>)) @@
    (NTopicY :> Metric("Gauge", 2, <<>>)) @@
    (NPlain  :> Metric("Counter", 1, <<>>))
RegHistogram ==
    (NBroker :> Metric("Histogram", 0, <<1>>)) @@
    (NOther  :> Metric("Meter", 1, <<>>))
RegTimer ==
    (NTopicX :> Metric("Timer", 1, <<2>>)) @@
    (NPlain  :> Metric("Healthcheck", 0, <<>>))
RegEmpty ==
    (NBroker :> Metric("Histogram", 0, <<>>)) @@
    (NOther  :> Metric("GaugeFloat64", 2, <<>>))
RegShared ==
    (NTopicX :> Metric("Counter", 1, <<>>)) @@
    (NBroker :> Metric("Gauge", 2, <<>>))
Registries == {RegTopics, RegHistogram, RegTimer, RegEmpty, RegShared}

(* ------------------------- prometheus registry ------------------------- *)
\* A collector as the prometheus registry sees it: its kind, its fully
\* qualified name, its variable label names and who created it.
Collector(kind, fq, labelNames, origin) ==
    [kind |-> kind, fq |-> fq, labelNames |-> labelNames, origin |-> origin]

NoVec == Collector("none", <<>>, {}, "none")

FqAB == BuildFQName(<<"a","_","b">>)
FqE == BuildFQName(<<"e">>)

\* what other code of the process registered before the exporter ran
PromRegs ==
    { EmptyFn,
      FqAB :> Collector("GaugeVec", FqAB, {"env", "topic"}, "foreign"),
      FqAB :> Collector("Other", FqAB, {"env", "topic"}, "foreign"),
      FqAB :> Collector("GaugeVec", FqAB, {"env"}, "foreign"),
      FqE :> Collector("Other", FqE, {"env"}, "foreign") }

\* promRegistry.Register(g): a descriptor of the same name with other label
\* names is an error; the same descriptor is AlreadyRegisteredError carrying
\* the existing collector; otherwise g is registered
Register(reg, g) ==
    IF g.fq \in DOMAIN reg
    THEN IF reg[g.fq].labelNames # g.labelNames
         THEN [err |-> "register_failed", existing |-> NoVec, reg |-> reg]
         ELSE [err |-> "already_registered", existing |-> reg[g.fq], reg |-> reg]
    ELSE [err |-> "nil", existing |-> NoVec, reg |-> (g.fq :> g) @@ reg]

(* ------------------------------- state --------------------------------- *)
Procs == {1, 2}
OptLabelsRef == 1
NilRef == 0

VARIABLES
    registry,        \* the go-metrics registry: raw name -> metric
    obs,             \* changes made to the metrics so far
    promReg,         \* checked collectors of the prometheus registry, by name
    promUnchecked,   \* collectors registered without descriptors
    series,          \* value of every gauge child: handle -> value
    heap,            \* label map objects: reference -> map
    labelsMap,       \* c.labelsMap: raw name -> reference of a label map
    metricsNameMap,  \* c.metricsNameMap: the names set to true
    gauges,          \* c.gauges: raw name -> bound handle
    customMetrics,   \* c.customMetrics: key -> collector (index of collectors)
    collectors,      \* customCollector objects: their metric field
    mu,              \* c.mu: the writer (0 if none) and the readers
    pc,              \* position of every goroutine
    fr,              \* local variables of every goroutine
    cycles,          \* update() invocations so far
    registerCalls,   \* history: Register calls per collector name
    labelInserts,    \* history: stores into c.labelsMap per raw name
    firstLabels,     \* history: label set first returned per raw name
    lastPub,         \* history: value last published with success per raw name
    regFailed,       \* history: raw names whose publication failed in Register
    scrape,          \* the goroutine of a scrape: position, collector, output
    arg,             \* argument of a function applied on its own
    out              \* what the function applied on its own returned

vars == <<registry, obs, promReg, promUnchecked, series, heap, labelsMap,
          metricsNameMap, gauges, customMetrics, collectors, mu, pc, fr,
          cycles, registerCalls, labelInserts, firstLabels, lastPub,
          regFailed, scrape, arg, out>>

\* the variables of the exporter object and of the prometheus registry
shared == <<promReg, promUnchecked, series, heap, labelsMap, metricsNameMap,
            gauges, customMetrics, collectors>>
history == <<registerCalls, labelInserts, firstLabels, lastPub, regFailed>>
\* the variables outside the update cycles
aux == <<scrape, arg, out>>

\* nothing was returned yet by a function applied on its own
NoOut == [op |-> "none", res |-> <<>>]

\* a scrape that is not inside Collect
Scrape0 == [pc |-> "idle", col |-> 0, emitted |-> <<>>, n |-> 0]

NoSnap == [count |-> 0, sum |-> 0, ps |-> <<>>]
NoHist == [set |-> FALSE, fq |-> <<>>, help |-> <<>>, labels |-> EmptyFn,
           count |-> 0, sum |-> 0, buckets |-> EmptyFn]

\* the locals of a goroutine that is not inside update()
Frame0 ==
    [todo |-> {}, err |-> "nil", failed |-> FALSE, name |-> <<>>, val |-> 0,
     kind |-> "none", cont |-> "none", caller |-> "none", res |-> "nil",
     shortName |-> <<>>, labels |-> NilRef, skip |-> FALSE, labelNames |-> {},
     g |-> NoVec, reg |-> "none", collector |-> 0, snap |-> NoSnap,
     typeName |-> <<>>, buckets |-> <<>>, metricName |-> <<>>,
     hist |-> NoHist, existing |-> NoVec]

\* the locals of one callback invocation, reset
CallFrame0 ==
    [name |-> <<>>, val |-> 0, kind |-> "none", cont |-> "none",
     caller |-> "none", res |-> "nil", shortName |-> <<>>, labels |-> NilRef,
     skip |-> FALSE, labelNames |-> {}, g |-> NoVec, reg |-> "none",
     collector |-> 0, snap |-> NoSnap, typeName |-> <<>>, buckets |-> <<>>,
     metricName |-> <<>>, hist |-> NoHist, existing |-> NoVec]

Merge(r, s) == [k \in DOMAIN r |-> IF k \in DOMAIN s THEN s[k] ELSE r[k]]

InitProgram ==
    /\ registry \in Registries
    /\ obs = 0
    /\ promReg \in PromRegs
    /\ promUnchecked = <<>>
    /\ series = EmptyFn
    /\ heap = (OptLabelsRef :> BaseLabels)
    /\ labelsMap = EmptyFn
    /\ metricsNameMap = {}
    /\ gauges = EmptyFn
    /\ customMetrics = EmptyFn
    /\ collectors = <<>>
    /\ mu = [w |-> 0, r |-> {}]
    /\ pc = [p \in Procs |-> "idle"]
    /\ fr = [p \in Procs |-> Frame0]
    /\ cycles = 0
    /\ registerCalls = EmptyFn
    /\ labelInserts = EmptyFn
    /\ firstLabels = EmptyFn
    /\ lastPub = EmptyFn
    /\ regFailed = {}
    /\ scrape = Scrape0

\* the program after construction; no function is applied on its own
Init ==
    /\ InitProgram
    /\ arg = <<>>
    /\ out = NoOut

\* a panic or a fatal error ends the program
Alive == \A p \in Procs : pc[p] \notin {"panic", "fatal"}

\* goroutine p of the running program is at position l
At(p, l) == Alive /\ pc[p] = l

\* goroutine p moves to position q with the locals in s changed
Goto(p, q, s) ==
    /\ pc' = [pc EXCEPT ![p] = q]
    /\ fr' = [fr EXCEPT ![p] = Merge(fr[p], s)]

(* -------------------------------- c.mu --------------------------------- *)
Lock(p) == mu.w = 0 /\ mu.r = {} /\ mu' = [w |-> p, r |-> {}]
Unlock(p) == mu' = [mu EXCEPT !.w = 0]
RLock(p) == mu.w = 0 /\ mu' = [mu EXCEPT !.r = @ \cup {p}]
RUnlock(p) == mu' = [mu EXCEPT !.r = @ \ {p}]

(* ------------------------------ update() ------------------------------- *)
\* update() is entered: err is nil and registry.Each starts over the metrics
update_start(p, max) ==
    /\ At(p, "idle")
    /\ cycles < max
    /\ cycles' = cycles + 1
    /\ Goto(p, "each", [todo |-> DOMAIN registry, err |-> "nil",
                         failed |-> FALSE])
    /\ UNCHANGED <<aux, registry, obs, shared, mu, history>>

\* the locals of the callback invoked on metric n, about to publish val
Callback(p, n, val, cont) ==
    Merge(CallFrame0, [name |-> n, val |-> val, kind |-> registry[n].kind,
                       cont |-> cont, caller |-> "g"])
        @@ [todo |-> fr[p].todo \ {n}]

\* Counter, Gauge, GaugeFloat64, Meter: one gauge publication
each_value(p) ==
    /\ At(p, "each")
    /\ \E n \in fr[p].todo :
        /\ registry[n].kind \in {"Counter", "Gauge", "GaugeFloat64", "Meter"}
        /\ Goto(p, "mnl_parse", Callback(p, n, registry[n].val, "each"))
    /\ UNCHANGED <<aux, registry, obs, shared, mu, cycles, history>>

\* Histogram: the last sample as a gauge if there is one, then the histogram
each_histogram(p) ==
    /\ At(p, "each")
    /\ \E n \in fr[p].todo :
        /\ registry[n].kind = "Histogram"
        /\ LET samples == registry[n].samples
           IN  IF Len(samples) > 0
               THEN Goto(p, "mnl_parse",
                         Callback(p, n, samples[Len(samples)], "hist"))
               ELSE Goto(p, "hist_check",
                         Callback(p, n, 0, "hist"))
    /\ UNCHANGED <<aux, registry, obs, shared, mu, cycles, history>>

\* Timer: the 1-minute rate as a gauge, then the histogram
each_timer(p) ==
    /\ At(p, "each")
    /\ \E n \in fr[p].todo :
        /\ registry[n].kind = "Timer"
        /\ Goto(p, "mnl_parse", Callback(p, n, registry[n].val, "hist"))
    /\ UNCHANGED <<aux, registry, obs, shared, mu, cycles, history>>

\* any other kind: no case of the switch applies, err keeps its value
each_ignored(p) ==
    /\ At(p, "each")
    /\ \E n \in fr[p].todo :
        /\ registry[n].kind \notin {"Counter", "Gauge", "GaugeFloat64",
                                    "Meter", "Histogram", "Timer"}
        /\ Goto(p, "each", [todo |-> fr[p].todo \ {n}])
    /\ UNCHANGED <<aux, registry, obs, shared, mu, cycles, history>>

\* err = c.gaugeFromNameAndValue(...) is assigned
update_after_gauge(p) ==
    /\ At(p, "g_ret")
    /\ lastPub' = IF fr[p].res = "nil" /\ ~fr[p].skip
                  THEN (fr[p].name :> fr[p].val) @@ lastPub
                  ELSE lastPub
    /\ regFailed' = IF fr[p].res # "nil" /\ fr[p].reg # "none"
                    THEN regFailed \cup {fr[p].name}
                    ELSE regFailed
    /\ IF fr[p].cont = "hist"
       THEN Goto(p, "hist_check",
                 [err |-> fr[p].res,
                  failed |-> fr[p].failed \/ fr[p].res # "nil"])
       ELSE Goto(p, "each",
                 CallFrame0 @@ [err |-> fr[p].res,
                                failed |-> fr[p].failed \/ fr[p].res # "nil"])
    /\ UNCHANGED <<aux, registry, obs, shared, mu, cycles, registerCalls,
                   labelInserts, firstLabels>>

\* if err == nil { err = c.histogramFromNameAndMetric(...) }
update_hist_check(p) ==
    /\ At(p, "hist_check")
    /\ IF fr[p].err = "nil"
       THEN Goto(p, "h_key",
                 Merge(CallFrame0,
                       [name |-> fr[p].name, kind |-> fr[p].kind,
                        caller |-> "h",
                        buckets |-> IF fr[p].kind = "Histogram"
                                    THEN histogramBuckets
                                    ELSE timerBuckets]))
       ELSE Goto(p, "each", CallFrame0)
    /\ UNCHANGED <<aux, registry, obs, shared, mu, cycles, history>>

\* err = c.histogramFromNameAndMetric(...) is assigned
update_after_hist(p) ==
    /\ At(p, "h_ret")
    /\ Goto(p, "each",
            CallFrame0 @@ [err |-> fr[p].res,
                           failed |-> fr[p].failed \/ fr[p].res # "nil"])
    /\ UNCHANGED <<aux, registry, obs, shared, mu, cycles, history>>

\* registry.Each is over: return err
update_return(p) ==
    /\ At(p, "each")
    /\ fr[p].todo = {}
    /\ Goto(p, "u_ret", [res |-> fr[p].err])
    /\ UNCHANGED <<aux, registry, obs, shared, mu, cycles, history>>

\* the caller of update() has its result
update_done(p) ==
    /\ At(p, "u_ret")
    /\ Goto(p, "idle", Frame0)
    /\ UNCHANGED <<aux, registry, obs, shared, mu, cycles, history>>

(* ------------------------ metricNameAndLabels -------------------------- *)
\* mutant of skipMetric: the test of topic is inverted
skipMetric_typo(parsed) == parsed.broker = <<>> /\ parsed.topic # <<>>

\* broker == "" && topic == ""
skipMetric(parsed) == parsed.broker = <<>> /\ parsed.topic = <<>>

\* the position after metricNameAndLabels returns to its caller
AfterMnl(p) == IF fr[p].caller = "g" THEN "g_after_mnl" ELSE "h_after_mnl"

\* history: the label set a raw name was first resolved to
FirstReturn(p, ref, h) ==
    IF fr[p].name \in DOMAIN firstLabels THEN firstLabels
    ELSE (fr[p].name :> h[ref]) @@ firstLabels

mnl_parse(p) ==
    /\ At(p, "mnl_parse")
    /\ LET parsed == parseMetricName(fr[p].name)
       IN  IF skipMetric(parsed)
           THEN Goto(p, AfterMnl(p), [shortName |-> parsed.newName,
                                      labels |-> NilRef, skip |-> TRUE])
           ELSE Goto(p, "mnl_rlock", [shortName |-> parsed.newName,
                                      skip |-> FALSE])
    /\ UNCHANGED <<aux, registry, obs, shared, mu, cycles, history>>

mnl_rlock(p) ==
    /\ At(p, "mnl_rlock")
    /\ RLock(p)
    /\ Goto(p, "mnl_read", [skip |-> FALSE])
    /\ UNCHANGED <<aux, registry, obs, shared, cycles, history>>

\* labels, ok = c.labelsMap[metricName]; RUnlock; a hit returns
mnl_read(p) ==
    /\ At(p, "mnl_read")
    /\ RUnlock(p)
    /\ IF fr[p].name \in DOMAIN labelsMap
       THEN /\ Goto(p, AfterMnl(p), [labels |-> labelsMap[fr[p].name]])
            /\ firstLabels' = FirstReturn(p, labelsMap[fr[p].name], heap)
       ELSE /\ Goto(p, "mnl_build", [labels |-> NilRef])
            /\ UNCHANGED firstLabels
    /\ UNCHANGED <<aux, registry, obs, shared, cycles, registerCalls,
                   labelInserts, lastPub, regFailed>>

\* labels = c.opt.Labels; labels["broker"] = broker; labels["topic"] = topic:
\* labels is the map object of the options, written in place
BuildLabels(h, parsed) ==
    LET m0 == h[OptLabelsRef]
        m1 == IF parsed.broker # <<>>
              THEN ("broker" :> parsed.broker) @@ m0 ELSE m0
        m2 == IF parsed.topic # <<>>
              THEN ("topic" :> parsed.topic) @@ m1 ELSE m1
    IN  [ref |-> OptLabelsRef, heap |-> [h EXCEPT ![OptLabelsRef] = m2]]

mnl_build(p) ==
    /\ At(p, "mnl_build")
    /\ LET b == BuildLabels(heap, parseMetricName(fr[p].name))
       IN  /\ heap' = b.heap
           /\ Goto(p, "mnl_lock", [labels |-> b.ref])
    /\ UNCHANGED <<aux, registry, obs, promReg, promUnchecked, series, labelsMap,
                   metricsNameMap, gauges, customMetrics, collectors, mu,
                   cycles, history>>

mnl_lock(p) ==
    /\ At(p, "mnl_lock")
    /\ Lock(p)
    /\ Goto(p, "mnl_store", [skip |-> FALSE])
    /\ UNCHANGED <<aux, registry, obs, shared, cycles, history>>

\* c.labelsMap[metricName] = labels; Unlock; return
mnl_store(p) ==
    /\ At(p, "mnl_store")
    /\ labelsMap' = (fr[p].name :> fr[p].labels) @@ labelsMap
    /\ Unlock(p)
    /\ labelInserts' =
         (fr[p].name :> (IF fr[p].name \in DOMAIN labelInserts
                         THEN labelInserts[fr[p].name] + 1 ELSE 1))
            @@ labelInserts
    /\ firstLabels' = FirstReturn(p, fr[p].labels, heap)
    /\ Goto(p, AfterMnl(p), [skip |-> FALSE])
    /\ UNCHANGED <<aux, registry, obs, promReg, promUnchecked, series, heap,
                   metricsNameMap, gauges, customMetrics, collectors, cycles,
                   registerCalls, lastPub,
                   regFailed>>

(* ----------------------- gaugeFromNameAndValue ------------------------- *)
\* if skip { return nil }; if _, exists := c.gauges[name]; !exists {
g_after_mnl(p) ==
    /\ At(p, "g_after_mnl")
    /\ IF fr[p].skip
       THEN Goto(p, "g_ret", [res |-> "nil"])
       ELSE IF fr[p].name \in DOMAIN gauges
       THEN Goto(p, "g_set", [res |-> "nil"])
       ELSE Goto(p, "g_names", [res |-> "nil"])
    /\ UNCHANGED <<aux, registry, obs, shared, mu, cycles, history>>

\* for labelName := range labels { labelNames = append(labelNames, labelName) }
g_names(p) ==
    /\ At(p, "g_names")
    /\ Goto(p, "g_lock", [labelNames |-> DOMAIN heap[fr[p].labels]])
    /\ UNCHANGED <<aux, registry, obs, shared, mu, cycles, history>>

g_lock(p) ==
    /\ At(p, "g_lock")
    /\ Lock(p)
    /\ Goto(p, "g_dedup", [metricName |-> sanitizeName(fr[p].shortName)])
    /\ UNCHANGED <<aux, registry, obs, shared, cycles, history>>

\* the name-dedup set: a name already seen ends the call with nil
g_dedup(p) ==
    /\ At(p, "g_dedup")
    /\ Unlock(p)
    /\ IF fr[p].metricName \in metricsNameMap
       THEN /\ Goto(p, "g_ret", [res |-> "nil"])
            /\ UNCHANGED metricsNameMap
       ELSE /\ metricsNameMap' = metricsNameMap \cup {fr[p].metricName}
            /\ Goto(p, "g_register", [res |-> "nil"])
    /\ UNCHANGED <<aux, registry, obs, promReg, promUnchecked, series, heap,
                   labelsMap, gauges, customMetrics, collectors, cycles,
                   history>>

\* prometheus.NewGaugeVec(GaugeOpts{...}, labelNames)
NewGaugeVec(shortName, labelNames) ==
    Collector("GaugeVec", BuildFQName(sanitizeName(shortName)), labelNames,
              "exporter")

\* mutant of RegisterOutcome: the existing collector is bound without the
\* check of its kind
RegisterOutcome_unchecked(r, g) ==
    IF r.err = "nil"
    THEN [g |-> g, res |-> "nil"]
    ELSE IF r.err = "already_registered"
    THEN [g |-> r.existing, res |-> "nil"]
    ELSE [g |-> NoVec, res |-> r.err]

\* the switch on the error of c.promRegistry.Register(g): the vector to bind
\* (if any) and the error to return (if any)
RegisterOutcome(r, g) ==
    IF r.err = "nil"
    THEN [g |-> g, res |-> "nil"]
    ELSE IF r.err = "already_registered"
    THEN IF r.existing.kind = "GaugeVec"
         THEN [g |-> r.existing, res |-> "nil"]
         ELSE [g |-> NoVec, res |-> "type_mismatch"]
    ELSE [g |-> NoVec, res |-> r.err]

\* fr[p].reg and fr[p].existing keep what Register answered
g_register(p) ==
    /\ At(p, "g_register")
    /\ LET g0 == NewGaugeVec(fr[p].shortName, fr[p].labelNames)
           r == Register(promReg, g0)
           o == RegisterOutcome(r, g0)
       IN  /\ promReg' = r.reg
           /\ registerCalls' =
                (g0.fq :> (IF g0.fq \in DOMAIN registerCalls
                           THEN registerCalls[g0.fq] + 1 ELSE 1))
                   @@ registerCalls
           /\ IF o.res = "nil"
              THEN Goto(p, "g_bind", [g |-> o.g, reg |-> r.err,
                                      existing |-> r.existing])
              ELSE Goto(p, "g_ret", [reg |-> r.err, existing |-> r.existing,
                                     res |-> o.res])
    /\ UNCHANGED <<aux, registry, obs, promUnchecked, series, heap, labelsMap,
                   metricsNameMap, gauges, customMetrics, collectors, mu,
                   cycles, labelInserts, firstLabels, lastPub,
                   regFailed>>

\* g.With(labels) panics unless labels has exactly the vector's label names
WithPanics(g, lbl) == DOMAIN lbl # g.labelNames

\* c.gauges[name] = g.With(labels)
g_bind(p) ==
    /\ At(p, "g_bind")
    /\ LET lbl == heap[fr[p].labels]
           h == [vec |-> fr[p].g, lbl |-> lbl]
       IN  IF WithPanics(fr[p].g, lbl)
           THEN /\ Goto(p, "panic", [res |-> "panic"])
                /\ UNCHANGED <<gauges, series>>
           ELSE /\ gauges' = (fr[p].name :> h) @@ gauges
                /\ series' = IF h \in DOMAIN series THEN series
                             ELSE (h :> 0) @@ series
                /\ Goto(p, "g_set", [res |-> "nil"])
    /\ UNCHANGED <<aux, registry, obs, promReg, promUnchecked, heap, labelsMap,
                   metricsNameMap, customMetrics, collectors, mu, cycles,
                   history>>

\* c.gauges[name].Set(val); return nil
g_set(p) ==
    /\ At(p, "g_set")
    /\ IF fr[p].name \in DOMAIN gauges
       THEN /\ series' = [series EXCEPT ![gauges[fr[p].name]] = fr[p].val]
            /\ Goto(p, "g_ret", [res |-> "nil"])
       ELSE /\ Goto(p, "panic", [res |-> "panic"])
            /\ UNCHANGED series
    /\ UNCHANGED <<aux, registry, obs, promReg, promUnchecked, heap, labelsMap,
                   metricsNameMap, gauges, customMetrics, collectors, mu,
                   cycles, history>>

(* --------------------- histogramFromNameAndMetric ---------------------- *)
\* key := c.createKey(name); collector, exists := c.customMetrics[key]
h_key(p) ==
    /\ At(p, "h_key")
    /\ LET key == createKey(fr[p].name)
       IN  IF key \in DOMAIN customMetrics
           THEN Goto(p, "h_snapshot", [collector |-> customMetrics[key]])
           ELSE Goto(p, "h_create", [collector |-> 0])
    /\ UNCHANGED <<aux, registry, obs, shared, mu, cycles, history>>

\* collector = newCustomCollector(&c.mu); MustRegister; c.customMetrics[key] =
h_create(p) ==
    /\ At(p, "h_create")
    /\ collectors' = Append(collectors, NoHist)
    /\ promUnchecked' = Append(promUnchecked, Len(collectors) + 1)
    /\ customMetrics' =
         (createKey(fr[p].name) :> (Len(collectors) + 1)) @@ customMetrics
    /\ Goto(p, "h_snapshot", [collector |-> Len(collectors) + 1])
    /\ UNCHANGED <<aux, registry, obs, promReg, series, heap, labelsMap,
                   metricsNameMap, gauges, mu, cycles, history>>

\* the type switch on goMetric: the snapshot's percentiles, count and sum
h_snapshot(p) ==
    /\ At(p, "h_snapshot")
    /\ LET m == registry[fr[p].name]
       IN  IF m.kind = "Histogram"
           THEN Goto(p, "mnl_parse",
                     [snap |-> Snapshot(m, fr[p].buckets),
                      typeName |-> <<"h","i","s","t","o","g","r","a","m">>])
           ELSE IF m.kind = "Timer"
           THEN Goto(p, "mnl_parse",
                     [snap |-> Snapshot(m, fr[p].buckets),
                      typeName |-> <<"t","i","m","e","r">>])
           ELSE Goto(p, "h_ret", [res |-> "unexpected_type"])
    /\ UNCHANGED <<aux, registry, obs, shared, mu, cycles, history>>

\* if skip { return nil }
h_after_mnl(p) ==
    /\ At(p, "h_after_mnl")
    /\ IF fr[p].skip
       THEN Goto(p, "h_ret", [res |-> "nil"])
       ELSE Goto(p, "h_lock", [res |-> "nil"])
    /\ UNCHANGED <<aux, registry, obs, shared, mu, cycles, history>>

h_lock(p) ==
    /\ At(p, "h_lock")
    /\ Lock(p)
    /\ Goto(p, "h_dedup",
            [metricName |-> sanitizeName(fr[p].shortName) \o <<"_">>
                              \o fr[p].typeName])
    /\ UNCHANGED <<aux, registry, obs, shared, cycles, history>>

\* the name-dedup set, on the suffixed name
h_dedup(p) ==
    /\ At(p, "h_dedup")
    /\ Unlock(p)
    /\ IF fr[p].metricName \in metricsNameMap
       THEN /\ Goto(p, "h_ret", [res |-> "nil"])
            /\ UNCHANGED metricsNameMap
       ELSE /\ metricsNameMap' = metricsNameMap \cup {fr[p].metricName}
            /\ Goto(p, "h_desc", [res |-> "nil"])
    /\ UNCHANGED <<aux, registry, obs, promReg, promUnchecked, series, heap,
                   labelsMap, gauges, customMetrics, collectors, cycles,
                   history>>

\* bucketVals[bucket] = uint64(ps[ii])
BucketVals(buckets, ps) ==
    [b \in {buckets[i] : i \in 1..Len(buckets)} |->
        ps[CHOOSE i \in 1..Len(buckets) :
              /\ buckets[i] = b
              /\ \A j \in 1..Len(buckets) : buckets[j] = b => j <= i]]

\* model.IsValidMetricName on a name of sanitized parts
IsValidMetricName(fq) == fq # <<>> /\ fq[1] \notin Digit

\* prometheus.NewDesc and prometheus.NewConstHistogram
NewConstHistogram(metricName, help, labels, count, sum, bucketVals) ==
    IF IsValidMetricName(BuildFQName(metricName))
    THEN [err |-> "nil",
          hist |-> [set |-> TRUE, fq |-> BuildFQName(metricName),
                    help |-> help, labels |-> labels, count |-> count,
                    sum |-> sum, buckets |-> bucketVals]]
    ELSE [err |-> "invalid_desc", hist |-> NoHist]

h_desc(p) ==
    /\ At(p, "h_desc")
    /\ LET r == NewConstHistogram(fr[p].metricName,
                                  sanitizeName(fr[p].shortName),
                                  heap[fr[p].labels],
                                  fr[p].snap.count, fr[p].snap.sum,
                                  BucketVals(fr[p].buckets, fr[p].snap.ps))
       IN  IF r.err # "nil"
           THEN Goto(p, "h_ret", [res |-> r.err])
           ELSE Goto(p, "h_lock2", [hist |-> r.hist])
    /\ UNCHANGED <<aux, registry, obs, shared, mu, cycles, history>>

h_lock2(p) ==
    /\ At(p, "h_lock2")
    /\ Lock(p)
    /\ Goto(p, "h_store", [res |-> "nil"])
    /\ UNCHANGED <<aux, registry, obs, shared, cycles, history>>

\* collector.metric = hist; Unlock; return nil
h_store(p) ==
    /\ At(p, "h_store")
    /\ collectors' = [collectors EXCEPT ![fr[p].collector] = fr[p].hist]
    /\ Unlock(p)
    /\ Goto(p, "h_ret", [res |-> "nil"])
    /\ UNCHANGED <<aux, registry, obs, promReg, promUnchecked, series, heap,
                   labelsMap, metricsNameMap, gauges, customMetrics, cycles,
                   history>>

(* --------------------------- the environment --------------------------- *)
\* the instrumented program updates metric n with v
Observe ==
    /\ Alive
    /\ obs < MaxObs
    /\ obs' = obs + 1
    /\ \E n \in DOMAIN registry, v \in 1..MaxVal :
        LET m == registry[n]
        IN  IF m.kind \in {"Histogram", "Timer"}
            THEN /\ Len(m.samples) < MaxSamples
                 /\ registry' = [registry EXCEPT ![n] =
                        Metric(m.kind, IF m.kind = "Timer" THEN v ELSE m.val,
                               Append(m.samples, v))]
            ELSE /\ m.val # v
                 /\ registry' = [registry EXCEPT ![n] =
                        Metric(m.kind, v, m.samples)]
    /\ UNCHANGED <<aux, shared, mu, pc, fr, cycles, history>>

\* the maps the next statement of p accesses without holding c.mu
Access(p) ==
    IF pc[p] = "g_after_mnl" /\ ~fr[p].skip THEN {<<"gauges", "r">>}
    ELSE IF pc[p] = "g_names" THEN {<<"labels", "r">>}
    ELSE IF pc[p] = "g_bind" THEN {<<"labels", "r">>, <<"gauges", "w">>}
    ELSE IF pc[p] = "g_set" THEN {<<"gauges", "r">>}
    ELSE IF pc[p] = "mnl_build" THEN {<<"labels", "w">>}
    ELSE IF pc[p] = "h_key" THEN {<<"customMetrics", "r">>}
    ELSE IF pc[p] = "h_create" THEN {<<"customMetrics", "w">>}
    ELSE IF pc[p] = "h_desc" THEN {<<"labels", "r">>}
    ELSE {}

\* two goroutines about to access one map, one of them writing: a data race
Race(p, q) ==
    \E a \in Access(p), b \in Access(q) :
        a[1] = b[1] /\ "w" \in {a[2], b[2]}

\* the Go runtime detects the overlapping map accesses and kills the program
MapRaceFatal(p) ==
    /\ Alive
    /\ \E q \in Procs \ {p} : Race(p, q)
    /\ Goto(p, "fatal", [res |-> "fatal"])
    /\ UNCHANGED <<aux, registry, obs, shared, mu, cycles, history>>

(* --------------------------- specifications ---------------------------- *)
Step(p, max) ==
    \/ update_start(p, max)
    \/ each_value(p)
    \/ each_histogram(p)
    \/ each_timer(p)
    \/ each_ignored(p)
    \/ update_after_gauge(p)
    \/ update_hist_check(p)
    \/ update_after_hist(p)
    \/ update_return(p)
    \/ update_done(p)
    \/ mnl_parse(p)
    \/ mnl_rlock(p)
    \/ mnl_read(p)
    \/ mnl_build(p)
    \/ mnl_lock(p)
    \/ mnl_store(p)
    \/ g_after_mnl(p)
    \/ g_names(p)
    \/ g_lock(p)
    \/ g_dedup(p)
    \/ g_register(p)
    \/ g_bind(p)
    \/ g_set(p)
    \/ h_key(p)
    \/ h_create(p)
    \/ h_snapshot(p)
    \/ h_after_mnl(p)
    \/ h_lock(p)
    \/ h_dedup(p)
    \/ h_desc(p)
    \/ h_lock2(p)
    \/ h_store(p)

\* update cycles on overlapping timers: any goroutine may run update(); the
\* metrics keep their values
InitOverlap == Init /\ registry \in {RegHistogram, RegTimer, RegShared}

Next ==
    \/ \E p \in Procs : Step(p, MaxOverlap)
    \/ \E p \in Procs : MapRaceFatal(p)

Spec == InitOverlap /\ [][Next]_vars

\* update cycles one after the other, all on goroutine 1
NextSeq ==
    \/ Step(1, MaxCycles)
    \/ Observe

SpecSeq == Init /\ [][NextSeq]_vars

(* ------------------------------- claims -------------------------------- *)
\* the raw name carries a broker or a topic dimension
HasDimension(n) == Index(n, ForBroker) >= 0 \/ Index(n, ForTopic) >= 0

\* the collector name of the gauge vector of raw name n
GaugeFq(n) ==
    BuildFQName(sanitizeName(
        IF Index(n, ForBroker) >= 0 THEN SubSeq(n, 1, Index(n, ForBroker))
        ELSE IF Index(n, ForTopic) >= 0 THEN SubSeq(n, 1, Index(n, ForTopic))
        ELSE n))

\* goroutine p is inside gaugeFromNameAndValue on a raw name with a dimension
InGaugeCall(p) == fr[p].caller = "g" /\ HasDimension(fr[p].name)

\* the exporter's own gauge vector is the registered collector of the name
RegisterSucceeded(fq) ==
    fq \in DOMAIN promReg /\ promReg[fq].origin = "exporter"

\* C1: with overlapping update cycles, Register is called exactly once for
\* a collector name, and every gaugeFromNameAndValue call on a raw name of
\* that collector name returns nil once that Register call has succeeded:
\* no such call ends in a panic or a fatal error or returns an error.
C1_RegisterOnceAllSucceed ==
    /\ \A fq \in DOMAIN registerCalls : registerCalls[fq] = 1
    /\ \A p \in Procs :
        (InGaugeCall(p) /\ RegisterSucceeded(GaugeFq(fr[p].name)))
            => /\ pc[p] \notin {"panic", "fatal"}
               /\ pc[p] = "g_ret" => fr[p].res = "nil"

\* C2: once req-rate-for-topic-orders and req-rate-for-topic-payments (here
\* a-b-for-topic-x and a-b-for-topic-y) have both been published, the gauge
\* vector was registered once and the handle cache holds two distinct
\* handles, each with the value last published for its raw name.
C2_TwoHandles ==
    (NTopicX \in DOMAIN lastPub /\ NTopicY \in DOMAIN lastPub)
        => /\ FqAB \in DOMAIN registerCalls
           /\ registerCalls[FqAB] = 1
           /\ NTopicX \in DOMAIN gauges
           /\ NTopicY \in DOMAIN gauges
           /\ gauges[NTopicX] # gauges[NTopicY]
           /\ series[gauges[NTopicX]] = lastPub[NTopicX]
           /\ series[gauges[NTopicY]] = lastPub[NTopicY]

\* C3: when histogramFromNameAndMetric returns nil for a raw name with a
\* dimension, the collector of that raw name holds an observation whose
\* count and sum are those of the snapshot taken in this call.
C3_ObservationReplaced ==
    \A p \in Procs :
        (pc[p] = "h_ret" /\ fr[p].res = "nil" /\ HasDimension(fr[p].name))
            => LET c == collectors[customMetrics[createKey(fr[p].name)]]
               IN  /\ c.set
                   /\ c.count = fr[p].snap.count
                   /\ c.sum = fr[p].snap.sum

\* C4: once a publication of the cycle has returned an error, the cycle
\* performs no further publication: the goroutine is never again inside
\* gaugeFromNameAndValue or histogramFromNameAndMetric in that cycle.
C4_AbortOnError ==
    \A p \in Procs :
        fr[p].failed
            => pc[p] \in {"each", "hist_check", "u_ret", "idle", "panic",
                          "fatal"}

\* C5: update() returns a non-nil error whenever a publication of the cycle
\* returned an error.
C5_ErrorReported ==
    \A p \in Procs :
        (pc[p] = "u_ret" /\ fr[p].failed) => fr[p].res # "nil"

\* the label set the resolver is to cache for raw name n
ExpectedLabels(n) ==
    LET parsed == parseMetricName(n)
    IN  IF parsed.broker # <<>>
        THEN ("broker" :> parsed.broker) @@ BaseLabels
        ELSE ("topic" :> parsed.topic) @@ BaseLabels

\* C6: in every state, the label set cached for a raw name is the static
\* labels plus the one dimension key and value parsed from that raw name.
C6_CachedLabels ==
    \A n \in DOMAIN labelsMap : heap[labelsMap[n]] = ExpectedLabels(n)

\* C7: every metricNameAndLabels call on a raw name returns a label set
\* with the keys and values of the set the first call on that raw name
\* returned.
C7_SameLabelsAgain ==
    \A p \in Procs :
        (pc[p] \in {"g_after_mnl", "h_after_mnl"} /\ ~fr[p].skip)
            => heap[fr[p].labels] = firstLabels[fr[p].name]

\* C8: with concurrent callers, at most one insertion into the label cache
\* occurs for a raw name, and callers back from metricNameAndLabels on the
\* same raw name hold the same label set.
C8_OneInsertion ==
    /\ \A n \in DOMAIN labelInserts : labelInserts[n] <= 1
    /\ \A p, q \in Procs :
        (/\ pc[p] \in {"g_after_mnl", "h_after_mnl"}
         /\ pc[q] \in {"g_after_mnl", "h_after_mnl"}
         /\ ~fr[p].skip
         /\ fr[p].name = fr[q].name)
            => fr[p].labels = fr[q].labels

\* C9: after Register answered "already registered" with a gauge vector,
\* gaugeFromNameAndValue returns nil with the handle bound from that
\* existing vector and the value set; after "already registered" with a
\* collector of another kind it returns the type-mismatch error and no
\* handle is cached; after any other failure it returns that error and no
\* handle is cached.
C9_RegisterOutcomes ==
    \A p \in Procs :
        /\ fr[p].reg # "none" => pc[p] # "panic"
        /\ pc[p] = "g_ret" =>
            /\ (fr[p].reg = "already_registered"
                    /\ fr[p].existing.kind = "GaugeVec")
                => /\ fr[p].res = "nil"
                   /\ fr[p].name \in DOMAIN gauges
                   /\ gauges[fr[p].name].vec = fr[p].existing
                   /\ series[gauges[fr[p].name]] = fr[p].val
            /\ (fr[p].reg = "already_registered"
                    /\ fr[p].existing.kind # "GaugeVec")
                => /\ fr[p].res = "type_mismatch"
                   /\ fr[p].name \notin DOMAIN gauges
            /\ fr[p].reg = "register_failed"
                => /\ fr[p].res = "register_failed"
                   /\ fr[p].name \notin DOMAIN gauges

C9_Witness ==
    /\ pc[1] = "g_ret"
    /\ fr[1].reg = "already_registered"
    /\ fr[1].existing.kind = "GaugeVec"
    /\ fr[1].existing.origin = "foreign"
    /\ fr[1].name \in DOMAIN gauges
    /\ series[gauges[fr[1].name]] = fr[1].val

\* goroutine p takes a step inside gaugeFromNameAndValue on a raw name
\* without dimension
SkipStep(p) ==
    /\ fr[p].caller = "g"
    /\ ~HasDimension(fr[p].name)
    /\ pc[p] \in {"mnl_parse", "g_after_mnl"}
    /\ pc'[p] # pc[p]

\* C10: gaugeFromNameAndValue on a raw name without dimension returns nil
\* and leaves the label cache, the name-dedup set, the handle cache and the
\* prometheus registry as they are, with no Register call; no handle, no
\* cached labels and no gauge vector ever exist for such a name.
C10_SkipIsNoOp ==
    /\ [][\A p \in Procs :
            SkipStep(p)
                => /\ pc'[p] \in {"g_after_mnl", "g_ret"}
                   /\ pc'[p] = "g_ret" => fr'[p].res = "nil"
                   /\ UNCHANGED <<heap, labelsMap, metricsNameMap, gauges,
                                  promReg, series, registerCalls>>]_vars
    /\ [](\A n \in Names :
            ~HasDimension(n)
                => /\ n \notin DOMAIN gauges
                   /\ n \notin DOMAIN labelsMap
                   /\ GaugeFq(n) \notin DOMAIN registerCalls)

C10_Witness ==
    /\ pc[1] = "g_ret"
    /\ fr[1].name = NPlain
    /\ fr[1].skip
    /\ fr[1].res = "nil"
    /\ cycles >= 2

(* ------------------------------- C11 ----------------------------------- *)
\* the bucket configuration update() passes for a metric of this kind
BucketsOf(kind) ==
    IF kind = "Histogram" THEN histogramBuckets ELSE timerBuckets

\* C11: in every update cycle each Histogram metric gets a gauge publication
\* of its most recent sample (none if the reservoir is empty) and each Timer
\* metric one of its 1-minute rate, and both always get a histogram
\* publication with the bucket configuration of their kind, the Histogram
\* with an empty reservoir included.
C11_GaugeAndHistogram ==
    [][\A p \in Procs :
        /\ (pc[p] = "each" /\ pc'[p] # "each" /\ pc'[p] # "u_ret"
                /\ fr'[p].kind \in {"Histogram", "Timer"})
            => LET m == registry[fr'[p].name]
               IN  IF m.kind = "Histogram" /\ Len(m.samples) = 0
                   THEN pc'[p] = "hist_check"
                   ELSE /\ pc'[p] = "mnl_parse"
                        /\ fr'[p].caller = "g"
                        /\ fr'[p].val = IF m.kind = "Timer" THEN m.val
                                        ELSE m.samples[Len(m.samples)]
        /\ (pc[p] = "g_ret" /\ pc'[p] # "g_ret"
                /\ fr[p].kind \in {"Histogram", "Timer"})
            => pc'[p] = "hist_check"
        /\ (pc[p] = "hist_check" /\ pc'[p] # "hist_check")
            => /\ pc'[p] = "h_key"
               /\ fr'[p].name = fr[p].name
               /\ fr'[p].buckets = BucketsOf(fr[p].kind)]_vars

(* ------------------------------- C12 ----------------------------------- *)
\* C12: when histogramFromNameAndMetric has returned nil for a raw name with
\* a dimension, the observation held by the collector of that name has the
\* labels resolved for the name, the count and the sum of the snapshot taken
\* by the call, and a bucket map with one key per bucket boundary, whose
\* value is the snapshot's quantile at that boundary.
C12_HeldObservation ==
    \A p \in Procs :
        (pc[p] = "h_ret" /\ fr[p].res = "nil" /\ HasDimension(fr[p].name))
            => /\ createKey(fr[p].name) \in DOMAIN customMetrics
               /\ LET held == collectors[customMetrics[createKey(fr[p].name)]]
                      bs   == fr[p].buckets
                  IN  /\ held.set
                      /\ held.labels = ExpectedLabels(fr[p].name)
                      /\ held.count = fr[p].snap.count
                      /\ held.sum = fr[p].snap.sum
                      /\ DOMAIN held.buckets = {bs[i] : i \in 1..Len(bs)}
                      /\ \A i \in 1..Len(bs) :
                            held.buckets[bs[i]] = fr[p].snap.ps[i]

(* ------------------- functions applied on their own -------------------- *)
\* the strings of the pieces ps, one after the other
RECURSIVE Flatten(_)
Flatten(ps) == IF ps = <<>> THEN <<>> ELSE Head(ps) \o Flatten(Tail(ps))

\* what raw names are made of: the two markers, parts of them, plain text
ParsePieces ==
    {<<"a">>, <<"-">>, ForBroker, ForTopic, <<"-","f","o","r">>,
     <<"b","r","o","k","e","r","-">>}

\* the raw names parseMetricName is applied to
ParseInputs ==
    {Flatten(ps) : ps \in UNION {[1..k -> ParsePieces] : k \in 0..MaxPieces}}

\* a program in which no update cycle runs
InitQuiet ==
    /\ InitProgram
    /\ registry = RegEmpty
    /\ promReg = EmptyFn

InitParse ==
    /\ InitQuiet
    /\ arg \in ParseInputs
    /\ out = NoOut

\* newName, broker, topic := parseMetricName(arg)
parse_apply ==
    /\ out.op = "none"
    /\ out' = [op |-> "parseMetricName", res |-> parseMetricName(arg)]
    /\ UNCHANGED <<registry, obs, shared, mu, pc, fr, cycles, history,
                   scrape, arg>>

NextParse == parse_apply

SpecParse == InitParse /\ [][NextParse]_vars

(* ------------------------------- C13 ----------------------------------- *)
\* marker occurs in s at the 0-based position i
OccursAt(s, marker, i) ==
    /\ i \in 0..(Len(s) - Len(marker))
    /\ \A k \in 1..Len(marker) : s[i + k] = marker[k]

Contains(s, marker) == \E i \in 0..Len(s) : OccursAt(s, marker, i)

\* s is before, marker, after, and marker does not occur in s any earlier
SplitAtFirst(s, marker, before, after) ==
    /\ s = before \o marker \o after
    /\ \A i \in 0..(Len(before) - 1) : ~OccursAt(s, marker, i)

\* C13: parseMetricName splits a raw name at the first -for-broker- if there
\* is one, into (text before, text after, ""); otherwise at the first
\* -for-topic-, into (text before, "", text after); otherwise it returns
\* (name, "", ""). It never returns both a broker and a topic.
C13_ParseMetricName ==
    out.op = "parseMetricName"
        => /\ IF Contains(arg, ForBroker)
              THEN /\ SplitAtFirst(arg, ForBroker,
                                   out.res.newName, out.res.broker)
                   /\ out.res.topic = <<>>
              ELSE IF Contains(arg, ForTopic)
              THEN /\ SplitAtFirst(arg, ForTopic,
                                   out.res.newName, out.res.topic)
                   /\ out.res.broker = <<>>
              ELSE /\ out.res.newName = arg
                   /\ out.res.broker = <<>>
                   /\ out.res.topic = <<>>
           /\ ~(out.res.broker # <<>> /\ out.res.topic # <<>>)

\* a name with the topic marker ahead of two broker markers was split
C13_Witness ==
    /\ out.op = "parseMetricName"
    /\ arg = ForTopic \o ForBroker \o ForBroker
    /\ out.res.newName = ForTopic
    /\ out.res.broker = ForBroker

(* ------------------------------- C14 ----------------------------------- *)
\* bytes of the keys sanitizeName is applied to: allowed ones, other ASCII
\* ones, and the two bytes C3 A9 of a character outside ASCII
SanitizeBytes == {"a", "Z", "0", "_", ":", "-", ".", "C3", "A9"}

SanitizeInputs == UNION {[1..k -> SanitizeBytes] : k \in 0..MaxLen}

InitSanitize ==
    /\ InitQuiet
    /\ arg \in SanitizeInputs
    /\ out = NoOut

\* c.sanitizeName(arg)
sanitize_apply ==
    /\ out.op = "none"
    /\ out' = [op |-> "sanitizeName", res |-> <<sanitizeName(arg)>>]
    /\ UNCHANGED <<registry, obs, shared, mu, pc, fr, cycles, history,
                   scrape, arg>>

\* c.sanitizeName applied to what it returned
sanitize_again ==
    /\ out.op = "sanitizeName"
    /\ Len(out.res) = 1
    /\ out' = [out EXCEPT !.res = Append(@, sanitizeName(out.res[1]))]
    /\ UNCHANGED <<registry, obs, shared, mu, pc, fr, cycles, history,
                   scrape, arg>>

NextSanitize == sanitize_apply \/ sanitize_again

SpecSanitize == InitSanitize /\ [][NextSanitize]_vars

\* the characters of [a-zA-Z0-9_:]
AllowedChars == Lower \cup Upper \cup Digit \cup {"_", ":"}

\* C14: sanitizeName(s) holds only characters of [a-zA-Z0-9_:], is as long
\* as s, has every allowed character of s at its place, and sanitizeName
\* applied to it returns it unchanged.
C14_SanitizeName ==
    out.op = "sanitizeName"
        => LET r == out.res[1]
           IN  /\ \A i \in 1..Len(r) : r[i] \in AllowedChars
               /\ Len(r) = Len(arg)
               /\ \A i \in 1..Len(arg) :
                     arg[i] \in AllowedChars => r[i] = arg[i]
               /\ Len(out.res) = 2 => out.res[2] = r

\* a key with an allowed and two other bytes was sanitized twice
C14_Witness ==
    /\ out.op = "sanitizeName"
    /\ arg = <<":", "C3", "A9">>
    /\ out.res = << <<":", "_", "_">>, <<":", "_", "_">> >>

(* ------------------------------- C15 ----------------------------------- *)
\* the shared map the next statement of p reads ("r") or writes ("w")
MapAccess(p) ==
    IF pc[p] = "mnl_read" THEN {<<"labelsMap", "r">>}
    ELSE IF pc[p] = "mnl_store" THEN {<<"labelsMap", "w">>}
    ELSE IF pc[p] \in {"g_dedup", "h_dedup"}
    THEN {<<"metricsNameMap", "r">>, <<"metricsNameMap", "w">>}
    ELSE IF pc[p] = "g_after_mnl" /\ ~fr[p].skip THEN {<<"gauges", "r">>}
    ELSE IF pc[p] = "g_bind" THEN {<<"gauges", "w">>}
    ELSE IF pc[p] = "g_set" THEN {<<"gauges", "r">>}
    ELSE IF pc[p] = "h_key" THEN {<<"customMetrics", "r">>}
    ELSE IF pc[p] = "h_create" THEN {<<"customMetrics", "w">>}
    ELSE {}

\* p holds c.mu as this kind of access needs it
HoldsFor(p, mode) ==
    IF mode = "w" THEN mu.w = p ELSE mu.w = p \/ p \in mu.r

\* C15: with update cycles running concurrently, every read and every write
\* of the label cache, the name-dedup set, the gauge handle cache and the
\* histogram collector map is made with c.mu held (exclusively for a write);
\* so no two cycles are ever about to access one of these maps, one of them
\* writing, with one of them not holding the lock.
C15_MapsUnderLock ==
    \A p \in Procs : \A q \in Procs \ {p} :
        pc[q] # "idle"
            => /\ \A a \in MapAccess(p) : HoldsFor(p, a[2])
               /\ \A a \in MapAccess(p), b \in MapAccess(q) :
                     (a[1] = b[1] /\ "w" \in {a[2], b[2]})
                         => HoldsFor(p, a[2]) /\ HoldsFor(q, b[2])

(* ------------------------------- C16 ----------------------------------- *)
\* C16: whatever the interleaving of the histogramFromNameAndMetric calls,
\* at most one collector is created and registered per internal key (each
\* registered collector was created for a key of the collector map, so there
\* are no more of them than keys), and the collector stored under a key is a
\* registered one.
C16_OneCollectorPerKey ==
    /\ Len(promUnchecked) <= Cardinality(DOMAIN customMetrics)
    /\ \A k \in DOMAIN customMetrics :
          \E i \in 1..Len(promUnchecked) : promUnchecked[i] = customMetrics[k]

(* --------------------------- customCollector --------------------------- *)
\* the goroutine of a scrape, as a holder of c.mu
ScrapeProc == 3

\* the prometheus registry gathers: Collect is called on a registered
\* collector
collect_start ==
    /\ Alive
    /\ scrape.pc = "idle"
    /\ scrape.n < MaxScrapes
    /\ \E i \in 1..Len(promUnchecked) :
          scrape' = [pc |-> "c_lock", col |-> promUnchecked[i],
                     emitted |-> <<>>, n |-> scrape.n + 1]
    /\ UNCHANGED <<registry, obs, shared, mu, pc, fr, cycles, history,
                   arg, out>>

\* c.mu.Lock()
collect_lock ==
    /\ Alive
    /\ scrape.pc = "c_lock"
    /\ Lock(ScrapeProc)
    /\ scrape' = [scrape EXCEPT !.pc = "c_send"]
    /\ UNCHANGED <<registry, obs, shared, pc, fr, cycles, history, arg, out>>

\* mutant of CollectSends: the test for nil is left out
CollectSends_unguarded(metric) == <<metric>>

\* if c.metric != nil { val := c.metric; ch <- val }: what goes to ch
CollectSends(metric) == IF metric.set THEN <<metric>> ELSE <<>>

\* the send on ch, which the registry drains
collect_send ==
    /\ Alive
    /\ scrape.pc = "c_send"
    /\ scrape' = [scrape EXCEPT
                    !.pc = "c_unlock",
                    !.emitted = @ \o CollectSends(collectors[scrape.col])]
    /\ UNCHANGED <<registry, obs, shared, mu, pc, fr, cycles, history,
                   arg, out>>

\* c.mu.Unlock()
collect_unlock ==
    /\ Alive
    /\ scrape.pc = "c_unlock"
    /\ Unlock(ScrapeProc)
    /\ scrape' = [scrape EXCEPT !.pc = "c_ret"]
    /\ UNCHANGED <<registry, obs, shared, pc, fr, cycles, history, arg, out>>

\* Collect returns to the registry
collect_return ==
    /\ Alive
    /\ scrape.pc = "c_ret"
    /\ scrape' = [Scrape0 EXCEPT !.n = scrape.n]
    /\ UNCHANGED <<registry, obs, shared, mu, pc, fr, cycles, history,
                   arg, out>>

Collect ==
    \/ collect_start
    \/ collect_lock
    \/ collect_send
    \/ collect_unlock
    \/ collect_return

\* update cycles one after the other on goroutine 1, scrapes at any time
NextScrape ==
    \/ Step(1, MaxCycles)
    \/ Observe
    \/ Collect

SpecScrape == Init /\ [][NextScrape]_vars

(* ------------------------------- C17 ----------------------------------- *)
\* C17: Collect on a histogram collector and the replacement of the
\* collector's held observation by the publisher never run at the same time;
\* a Collect sends at most one observation, none while the collector was
\* never populated, and otherwise the observation stored last.
C17_CollectExclusive ==
    /\ \A p \in Procs :
          ~(pc[p] = "h_store" /\ scrape.pc \in {"c_send", "c_unlock"})
    /\ Len(scrape.emitted) <= 1
    /\ scrape.pc = "c_unlock"
          => IF collectors[scrape.col].set
             THEN scrape.emitted = <<collectors[scrape.col]>>
             ELSE scrape.emitted = <<>>
    /\ scrape.pc = "c_ret"
          => \A i \in 1..Len(scrape.emitted) : scrape.emitted[i].set

\* a Collect holding the lock has sent the observation of a populated
\* collector, while the publisher of a later cycle waits for the lock
C17_Witness ==
    /\ scrape.pc = "c_unlock"
    /\ mu.w = ScrapeProc
    /\ scrape.emitted = <<collectors[scrape.col]>>
    /\ scrape.emitted[1].count > 0
    /\ pc[1] = "h_lock"
    /\ cycles >= 2

(* ------------------------------- C18 ----------------------------------- *)
\* C18: once gaugeFromNameAndValue has returned the error of a failed
\* Register for a raw name, every later call for that name either returns an
\* error again or ends with a handle cached for the name that holds the
\* published value; it never returns nil while no handle exists for the name.
C18_RetryAfterFailure ==
    \A p \in Procs :
        (pc[p] = "g_ret" /\ fr[p].name \in regFailed /\ fr[p].res = "nil")
            => /\ fr[p].name \in DOMAIN gauges
               /\ series[gauges[fr[p].name]] = fr[p].val

(* ------------------------------- C19 ----------------------------------- *)
\* C19: the label set of the options is never modified: whatever calls were
\* made, it has the keys and values it had at construction, and in particular
\* neither a broker nor a topic key.
C19_OptionsLabelsKept ==
    /\ heap[OptLabelsRef] = BaseLabels
    /\ "broker" \notin DOMAIN heap[OptLabelsRef]
    /\ "topic" \notin DOMAIN heap[OptLabelsRef]

(* ------------------------------- C20 ----------------------------------- *)
\* c.mu is held only between a Lock or RLock and the Unlock or RUnlock that
\* follows it, so never at an acquisition and never on return
LockDiscipline ==
    /\ \A p \in Procs :
          /\ mu.w = p => pc[p] \in {"mnl_store", "g_dedup", "h_dedup",
                                    "h_store", "panic", "fatal"}
          /\ p \in mu.r => pc[p] \in {"mnl_read", "panic", "fatal"}
          /\ pc[p] \in {"mnl_store", "g_dedup", "h_dedup", "h_store"}
                => mu.w = p
    /\ mu.w = ScrapeProc <=> scrape.pc \in {"c_send", "c_unlock"}
    /\ mu.w \in {0, ScrapeProc} \cup Procs
    /\ mu.r \subseteq Procs
    /\ mu.w # 0 => mu.r = {}

\* no update() call was stopped by a panic or by a fatal error of the
\* runtime, after which it does not return
NoCallStuck ==
    \A p \in Procs : pc[p] \notin {"panic", "fatal"}

\* C20: every path through the three functions and Collect releases the
\* lock before it returns and never acquires it while holding it; so with
\* concurrent update cycles no deadlock is reachable and no update() call
\* is ever left unable to return.
C20_LocksAndTermination ==
    /\ LockDiscipline
    /\ NoCallStuck

====
